---- MODULE Spec2Model ----
(***************************************************************************)
(* A model of strip-ansi-escapes: the Writer that feeds every byte to the  *)
(* vte escape-sequence parser, the Performer that forwards printable       *)
(* characters and linefeeds to a line-buffered sink and discards the rest, *)
(* and the one-shot strip function.                                        *)
(***************************************************************************)
EXTENDS Integers, Sequences, FiniteSets, TLC

(***************************************************************************)
(* Bytes.                                                                  *)
(***************************************************************************)
LF  == 10
ESC == 27

\* The bytes the model draws unstructured inputs from, one or two of every
\* class the parser's table tells apart: 97 'a', 91 '[', 93 ']', linefeed,
\* ESC, 9 TAB, 7 BEL, and 195 169, the UTF-8 encoding of U+00E9.
Bytes == {97, 91, 93, LF, ESC, 9, 7, 195, 169}

\* The bytes written to a Writer: 'a' (printable, and a final byte after
\* ESC or ESC [), '[', linefeed, ESC and the two bytes of U+00E9.
WBytes == {97, 91, LF, ESC, 195, 169}

In(b, lo, hi) == lo <= b /\ b <= hi

(***************************************************************************)
(* The escape-sequence parser (crate vte).  Its state table, keyed by the  *)
(* current state and the next byte, gives an action and a new state;       *)
(* "Anywhere" as new state means the state is kept.                        *)
(***************************************************************************)
Chg(a, s) == [action |-> a, state |-> s]
NoChange == Chg("None", "Anywhere")

AnywhereTable(b) ==
    CASE b = 24 -> Chg("Execute", "Ground")
      [] b = 26 -> Chg("Execute", "Ground")
      [] b = ESC -> Chg("None", "Escape")
      [] OTHER -> NoChange

C0Execute(b) == In(b, 0, 23) \/ b = 25 \/ In(b, 28, 31)

StateTable(s, b) ==
    CASE s = "Ground" ->
           (CASE C0Execute(b) -> Chg("Execute", "Anywhere")
              [] In(b, 32, 127) -> Chg("Print", "Anywhere")
              [] In(b, 128, 143) \/ In(b, 145, 154) \/ b = 156 -> Chg("Execute", "Anywhere")
              [] In(b, 194, 223) \/ In(b, 224, 239) \/ In(b, 240, 244) -> Chg("BeginUtf8", "Utf8")
              [] OTHER -> NoChange)
      [] s = "Escape" ->
           (CASE C0Execute(b) -> Chg("Execute", "Anywhere")
              [] b = 127 -> Chg("Ignore", "Anywhere")
              [] In(b, 32, 47) -> Chg("Collect", "EscapeIntermediate")
              [] In(b, 48, 79) \/ In(b, 81, 87) \/ b = 89 \/ b = 90 \/ b = 92
                 \/ In(b, 96, 126) -> Chg("EscDispatch", "Ground")
              [] b = 91 -> Chg("None", "CsiEntry")
              [] b = 93 -> Chg("None", "OscString")
              [] b = 80 -> Chg("None", "DcsEntry")
              [] b = 88 \/ b = 94 \/ b = 95 -> Chg("None", "SosPmApcString")
              [] OTHER -> NoChange)
      [] s = "EscapeIntermediate" ->
           (CASE C0Execute(b) -> Chg("Execute", "Anywhere")
              [] In(b, 32, 47) -> Chg("Collect", "Anywhere")
              [] b = 127 -> Chg("Ignore", "Anywhere")
              [] In(b, 48, 126) -> Chg("EscDispatch", "Ground")
              [] OTHER -> NoChange)
      [] s = "CsiEntry" ->
           (CASE C0Execute(b) -> Chg("Execute", "Anywhere")
              [] b = 127 -> Chg("Ignore", "Anywhere")
              [] In(b, 32, 47) -> Chg("Collect", "CsiIntermediate")
              [] b = 58 -> Chg("None", "CsiIgnore")
              [] In(b, 48, 57) \/ b = 59 -> Chg("Param", "CsiParam")
              [] In(b, 60, 63) -> Chg("Collect", "CsiParam")
              [] In(b, 64, 126) -> Chg("CsiDispatch", "Ground")
              [] OTHER -> NoChange)
      [] s = "CsiIgnore" ->
           (CASE C0Execute(b) -> Chg("Execute", "Anywhere")
              [] In(b, 32, 63) \/ b = 127 -> Chg("Ignore", "Anywhere")
              [] In(b, 64, 126) -> Chg("None", "Ground")
              [] OTHER -> NoChange)
      [] s = "CsiParam" ->
           (CASE C0Execute(b) -> Chg("Execute", "Anywhere")
              [] In(b, 48, 57) \/ b = 59 -> Chg("Param", "Anywhere")
              [] b = 127 -> Chg("Ignore", "Anywhere")
              [] b = 58 \/ In(b, 60, 63) -> Chg("None", "CsiIgnore")
              [] In(b, 32, 47) -> Chg("Collect", "CsiIntermediate")
              [] In(b, 64, 126) -> Chg("CsiDispatch", "Ground")
              [] OTHER -> NoChange)
      [] s = "CsiIntermediate" ->
           (CASE C0Execute(b) -> Chg("Execute", "Anywhere")
              [] In(b, 32, 47) -> Chg("Collect", "Anywhere")
              [] b = 127 -> Chg("Ignore", "Anywhere")
              [] In(b, 48, 63) -> Chg("None", "CsiIgnore")
              [] In(b, 64, 126) -> Chg("CsiDispatch", "Ground")
              [] OTHER -> NoChange)
      [] s = "DcsEntry" ->
           (CASE C0Execute(b) \/ b = 127 -> Chg("Ignore", "Anywhere")
              [] b = 58 -> Chg("None", "DcsIgnore")
              [] In(b, 32, 47) -> Chg("Collect", "DcsIntermediate")
              [] In(b, 48, 57) \/ b = 59 -> Chg("Param", "DcsParam")
              [] In(b, 60, 63) -> Chg("Collect", "DcsParam")
              [] In(b, 64, 126) -> Chg("None", "DcsPassthrough")
              [] OTHER -> NoChange)
      [] s = "DcsIntermediate" ->
           (CASE C0Execute(b) \/ b = 127 -> Chg("Ignore", "Anywhere")
              [] In(b, 32, 47) -> Chg("Collect", "Anywhere")
              [] In(b, 48, 63) -> Chg("None", "DcsIgnore")
              [] In(b, 64, 126) -> Chg("None", "DcsPassthrough")
              [] OTHER -> NoChange)
      [] s = "DcsIgnore" ->
           (CASE C0Execute(b) \/ In(b, 32, 127) -> Chg("Ignore", "Anywhere")
              [] b = 156 -> Chg("None", "Ground")
              [] OTHER -> NoChange)
      [] s = "DcsParam" ->
           (CASE C0Execute(b) \/ b = 127 -> Chg("Ignore", "Anywhere")
              [] In(b, 48, 57) \/ b = 59 -> Chg("Param", "Anywhere")
              [] b = 58 \/ In(b, 60, 63) -> Chg("None", "DcsIgnore")
              [] In(b, 32, 47) -> Chg("Collect", "DcsIntermediate")
              [] In(b, 64, 126) -> Chg("None", "DcsPassthrough")
              [] OTHER -> NoChange)
      [] s = "DcsPassthrough" ->
           (CASE C0Execute(b) \/ In(b, 32, 126) -> Chg("Put", "Anywhere")
              [] b = 127 -> Chg("Ignore", "Anywhere")
              [] b = 156 -> Chg("None", "Ground")
              [] OTHER -> NoChange)
      [] s = "SosPmApcString" ->
           (CASE C0Execute(b) \/ In(b, 32, 127) -> Chg("Ignore", "Anywhere")
              [] b = 156 -> Chg("None", "Ground")
              [] OTHER -> NoChange)
      [] s = "OscString" ->
           (CASE b = 7 -> Chg("None", "Ground")
              [] C0Execute(b) /\ b # 7 -> Chg("Ignore", "Anywhere")
              [] In(b, 32, 255) -> Chg("OscPut", "Anywhere")
              [] OTHER -> NoChange)
      [] OTHER -> NoChange

\* The table entry for a byte: an entry of the Anywhere row wins over the
\* current state's row.
Change(s, b) ==
    IF AnywhereTable(b) # NoChange THEN AnywhereTable(b) ELSE StateTable(s, b)

(***************************************************************************)
(* The UTF-8 decoder the parser hands bytes to while in its Utf8 state     *)
(* (crate utf8parse): a state, and the code point assembled so far.        *)
(***************************************************************************)
U8(a, s) == [action |-> a, state |-> s]
U8Invalid == U8("InvalidSequence", "Ground")

Utf8Table(s, b) ==
    CASE s = "Ground" ->
           (CASE In(b, 0, 127) -> U8("EmitByte", "Ground")
              [] In(b, 194, 223) -> U8("SetByte2Top", "Tail1")
              [] b = 224 -> U8("SetByte3Top", "U3_2_e0")
              [] In(b, 225, 236) \/ In(b, 238, 239) -> U8("SetByte3Top", "Tail2")
              [] b = 237 -> U8("SetByte3Top", "U3_2_ed")
              [] b = 240 -> U8("SetByte4", "Utf8_4_3_f0")
              [] In(b, 241, 243) -> U8("SetByte4", "Tail3")
              [] b = 244 -> U8("SetByte4", "Utf8_4_3_f4")
              [] OTHER -> U8Invalid)
      [] s = "U3_2_e0" -> IF In(b, 160, 191) THEN U8("SetByte2", "Tail1") ELSE U8Invalid
      [] s = "U3_2_ed" -> IF In(b, 128, 159) THEN U8("SetByte2", "Tail1") ELSE U8Invalid
      [] s = "Utf8_4_3_f0" -> IF In(b, 144, 191) THEN U8("SetByte3", "Tail2") ELSE U8Invalid
      [] s = "Utf8_4_3_f4" -> IF In(b, 128, 143) THEN U8("SetByte3", "Tail2") ELSE U8Invalid
      [] s = "Tail3" -> IF In(b, 128, 191) THEN U8("SetByte3", "Tail2") ELSE U8Invalid
      [] s = "Tail2" -> IF In(b, 128, 191) THEN U8("SetByte2", "Tail1") ELSE U8Invalid
      [] s = "Tail1" -> IF In(b, 128, 191) THEN U8("SetByte1", "Ground") ELSE U8Invalid
      [] OTHER -> U8Invalid

REPLACEMENT_CHARACTER == 65533

\* The decoder's action t on byte b: the new decoder state and code point,
\* and the character handed to the receiver, if any (-1: none).
Utf8Perform(u, b, t) ==
    CASE t.action = "InvalidSequence" ->
           [state |-> t.state, point |-> 0, emit |-> REPLACEMENT_CHARACTER]
      [] t.action = "EmitByte" ->
           [state |-> t.state, point |-> 0, emit |-> b]
      [] t.action = "SetByte1" ->
           [state |-> t.state, point |-> 0, emit |-> u.point + (b % 64)]
      [] t.action = "SetByte2" ->
           [state |-> t.state, point |-> u.point + (b % 64) * 64, emit |-> -1]
      [] t.action = "SetByte2Top" ->
           [state |-> t.state, point |-> u.point + (b % 32) * 64, emit |-> -1]
      [] t.action = "SetByte3" ->
           [state |-> t.state, point |-> u.point + (b % 64) * 4096, emit |-> -1]
      [] t.action = "SetByte3Top" ->
           [state |-> t.state, point |-> u.point + (b % 16) * 4096, emit |-> -1]
      [] OTHER ->  \* SetByte4
           [state |-> t.state, point |-> u.point + (b % 8) * 262144, emit |-> -1]

Utf8Advance(u, b) == Utf8Perform(u, b, Utf8Table(u.state, b))

\* char::encode_utf8: the bytes a character is written as.
EncodeUtf8(c) ==
    IF c < 128 THEN <<c>>
    ELSE IF c < 2048 THEN <<192 + (c \div 64), 128 + (c % 64)>>
    ELSE IF c < 65536 THEN
        <<224 + (c \div 4096), 128 + ((c \div 64) % 64), 128 + (c % 64)>>
    ELSE <<240 + (c \div 262144), 128 + ((c \div 4096) % 64),
           128 + ((c \div 64) % 64), 128 + (c % 64)>>

(***************************************************************************)
(* Parser::advance.  The parser is its state and its decoder; the result   *)
(* is the new parser and the Perform callbacks the byte causes, in order.  *)
(* Parameters, intermediates and the OSC buffer are collected by the       *)
(* parser only to be handed to callbacks that ignore them; they do not     *)
(* influence a transition and are left out.                                *)
(***************************************************************************)
Call(k, v) == [cb |-> k, arg |-> v]

NewParser == [state |-> "Ground", utf8 |-> "Ground", point |-> 0]

\* perform_action: the callback an action makes, if any.
PerformAction(a, b) ==
    CASE a = "Print" -> <<Call("print", b)>>
      [] a = "Execute" -> <<Call("execute", b)>>
      [] a = "Hook" -> <<Call("hook", 0)>>
      [] a = "Put" -> <<Call("put", b)>>
      [] a = "Unhook" -> <<Call("unhook", 0)>>
      [] a = "OscEnd" -> <<Call("osc_dispatch", 0)>>
      [] a = "CsiDispatch" -> <<Call("csi_dispatch", b)>>
      [] a = "EscDispatch" -> <<Call("esc_dispatch", b)>>
      [] OTHER -> <<>>

ExitAction(s) ==
    CASE s = "DcsPassthrough" -> "Unhook"
      [] s = "OscString" -> "OscEnd"
      [] OTHER -> "None"

EntryAction(s) ==
    CASE s \in {"CsiEntry", "DcsEntry", "Escape"} -> "Clear"
      [] s = "DcsPassthrough" -> "Hook"
      [] s = "OscString" -> "OscStart"
      [] OTHER -> "None"

\* The receiver of the decoder: a decoded character or an invalid sequence
\* is printed and puts the parser back in Ground.
Utf8Receive(p, u) ==
    [parser |-> [state |-> IF u.emit >= 0 THEN "Ground" ELSE p.state,
                 utf8 |-> u.state, point |-> u.point],
     calls |-> IF u.emit >= 0 THEN <<Call("print", u.emit)>> ELSE <<>>]

\* process_utf8: the byte goes to the decoder.
ProcessUtf8(p, b) ==
    Utf8Receive(p, Utf8Advance([state |-> p.utf8, point |-> p.point], b))

\* The parser state after the transition of a step r.
InState(r, s) == [parser |-> [r.parser EXCEPT !.state = s], calls |-> r.calls]

\* perform_state_change for the table entry c: without a state change the
\* action alone; with one, the exit action of the old state, the action of
\* the transition and the entry action of the new state.
perform_state_change(p, c, b) ==
    IF c.state = "Anywhere"
    THEN [parser |-> p, calls |-> PerformAction(c.action, b)]
    ELSE IF c.action = "BeginUtf8"
    THEN InState(ProcessUtf8(p, b), c.state)
    ELSE [parser |-> [p EXCEPT !.state = c.state],
          calls |-> PerformAction(ExitAction(p.state), b)
                    \o PerformAction(c.action, b)
                    \o PerformAction(EntryAction(c.state), b)]

\* In the Utf8 state every byte, ESC included, goes to the decoder.
advance(p, b) ==
    IF p.state = "Utf8" THEN ProcessUtf8(p, b)
    ELSE perform_state_change(p, Change(p.state, b), b)

(***************************************************************************)
(* The line-buffered sink, std::io::LineWriter<W>: a buffer in front of    *)
(* the wrapped sink.  inner is what the wrapped sink has received.  Every  *)
(* operation takes the outcome of the wrapped sink's writes during it      *)
(* (fail: they return an error) and returns whether it succeeded.          *)
(***************************************************************************)
\* The buffer's capacity (1024 in std), scaled down so that a full buffer
\* happens within the model's input lengths.
BufCap == 2

NewLineWriter == [buf |-> <<>>, inner |-> <<>>]

Res(w, ok) == [w |-> w, ok |-> ok]

\* The ? operator: an error ends the operation, a success continues it.
AndThen(r, F(_)) == IF r.ok THEN F(r.w) ELSE r

\* W::write_all on the wrapped sink; an empty slice makes no write.
InnerWriteAll(w, bytes, fail) ==
    IF bytes = <<>> THEN Res(w, TRUE)
    ELSE IF fail THEN Res(w, FALSE)
    ELSE Res([w EXCEPT !.inner = @ \o bytes], TRUE)

\* BufWriter::flush_buf: the buffer goes to the wrapped sink; on an error
\* it stays in the buffer.
FlushBuf(w, fail) ==
    IF w.buf = <<>> THEN Res(w, TRUE)
    ELSE IF fail THEN Res(w, FALSE)
    ELSE Res([buf |-> <<>>, inner |-> w.inner \o w.buf], TRUE)

\* BufWriter::write_all: bytes that fit are buffered; otherwise the buffer
\* is flushed if they exceed the room left, and bytes as long as the
\* capacity go to the wrapped sink directly.
BufWriteAll(w, bytes, fail) ==
    IF Len(bytes) < BufCap - Len(w.buf)
    THEN Res([w EXCEPT !.buf = @ \o bytes], TRUE)
    ELSE AndThen(IF Len(bytes) > BufCap - Len(w.buf)
                 THEN FlushBuf(w, fail) ELSE Res(w, TRUE),
                 LAMBDA x : IF Len(bytes) >= BufCap
                            THEN InnerWriteAll(x, bytes, fail)
                            ELSE Res([x EXCEPT !.buf = @ \o bytes], TRUE))

\* The index of the last linefeed of bytes, 0 if it has none.
LastNewline(bytes) ==
    IF \A i \in 1..Len(bytes) : bytes[i] # LF THEN 0
    ELSE CHOOSE i \in 1..Len(bytes) :
           bytes[i] = LF /\ \A j \in (i + 1)..Len(bytes) : bytes[j] # LF

\* LineWriter::write_all with the last linefeed at n: without a linefeed
\* the bytes are buffered (after a completed line left in the buffer by a
\* failed flush is flushed); with one, everything up to it is flushed to
\* the wrapped sink and the tail is buffered.
LineWriteSplit(w, bytes, n, fail) ==
    IF n = 0
    THEN AndThen(IF w.buf # <<>> /\ w.buf[Len(w.buf)] = LF
                 THEN FlushBuf(w, fail) ELSE Res(w, TRUE),
                 LAMBDA x : BufWriteAll(x, bytes, fail))
    ELSE AndThen(IF w.buf = <<>>
                 THEN InnerWriteAll(w, SubSeq(bytes, 1, n), fail)
                 ELSE AndThen(BufWriteAll(w, SubSeq(bytes, 1, n), fail),
                              LAMBDA x : FlushBuf(x, fail)),
                 LAMBDA x : BufWriteAll(x, SubSeq(bytes, n + 1, Len(bytes)), fail))

LineWriteAll(w, bytes, fail) == LineWriteSplit(w, bytes, LastNewline(bytes), fail)

\* LineWriter::flush: the buffer, then the wrapped sink's own flush.
LineFlush(w, fail) == AndThen(FlushBuf(w, fail), LAMBDA x : Res(x, ~fail))

\* LineWriter::into_inner: flushes the buffer; on an error the LineWriter,
\* buffer included, is carried by the IntoInnerError.
LineIntoInner(w, fail) == FlushBuf(w, fail)

(***************************************************************************)
(* The Performer: the line-buffered sink and the pending error.  err is 0  *)
(* for None; an error is identified by the position (from 1) in the        *)
(* written buffer of the byte whose forwarding failed.                     *)
(***************************************************************************)
NewPerformer == [writer |-> NewLineWriter, err |-> 0]

\* self.err = (result r of a write to self.writer).err()
SetErr(r, id) == [writer |-> r.w, err |-> IF r.ok THEN 0 ELSE id]

\* A print that writes only ASCII characters and drops the others.
PerformerPrintAscii(perf, c, fail, id) ==
    IF c >= 128 THEN perf
    ELSE SetErr(LineWriteAll(perf.writer, EncodeUtf8(c), fail), id)

\* A print that writes the character as one byte, its low eight bits.
PerformerPrintByte(perf, c, fail, id) ==
    SetErr(LineWriteAll(perf.writer, <<c % 256>>, fail), id)

\* A print that puts the character in front of the buffered bytes.
PerformerPrintFront(perf, c, fail, id) ==
    [perf EXCEPT !.writer.buf = EncodeUtf8(c) \o @]

\* print: self.err = write!(self.writer, "{}", c).err()
PerformerPrint(perf, c, fail, id) ==
    SetErr(LineWriteAll(perf.writer, EncodeUtf8(c), fail), id)

\* An execute that ignores every control byte, the linefeed too.
PerformerExecuteNothing(perf, byte, fail, id) == perf

\* An execute that writes the linefeed to the buffer, without the flush of
\* a completed line.
PerformerExecuteUnflushed(perf, byte, fail, id) ==
    IF byte = LF
    THEN SetErr(BufWriteAll(perf.writer, <<LF>>, fail), id)
    ELSE perf

\* An execute that forwards every control byte.
PerformerExecuteAll(perf, byte, fail, id) ==
    SetErr(LineWriteAll(perf.writer, <<byte>>, fail), id)

\* An execute that keeps an error already recorded: the first failure of a
\* call wins.
PerformerExecuteKeepFirst(perf, byte, fail, id) ==
    IF byte = LF
    THEN IF perf.err # 0
         THEN [writer |-> LineWriteAll(perf.writer, <<LF>>, fail).w, err |-> perf.err]
         ELSE SetErr(LineWriteAll(perf.writer, <<LF>>, fail), id)
    ELSE perf

\* execute: a linefeed is written, any other byte is ignored.
PerformerExecute(perf, byte, fail, id) ==
    IF byte = LF
    THEN SetErr(LineWriteAll(perf.writer, <<LF>>, fail), id)
    ELSE perf

\* A csi_dispatch and an esc_dispatch that forward the final byte.
PerformerCsiDispatchEcho(perf, c) ==
    [perf EXCEPT !.writer = LineWriteAll(perf.writer, EncodeUtf8(c), FALSE).w]
PerformerEscDispatchEcho(perf, byte) ==
    [perf EXCEPT !.writer = LineWriteAll(perf.writer, <<byte>>, FALSE).w]

\* An osc_dispatch that records an error.
PerformerOscDispatchErr(perf) == [perf EXCEPT !.err = 1]

\* The remaining callbacks have empty bodies.
PerformerHook(perf) == perf
PerformerPut(perf, byte) == perf
PerformerUnhook(perf) == perf
PerformerOscDispatch(perf) == perf
PerformerCsiDispatch(perf, c) == perf
PerformerEscDispatch(perf, byte) == perf

\* One Perform callback.
Perform(perf, call, fail, id) ==
    CASE call.cb = "print" -> PerformerPrint(perf, call.arg, fail, id)
      [] call.cb = "execute" -> PerformerExecute(perf, call.arg, fail, id)
      [] call.cb = "hook" -> PerformerHook(perf)
      [] call.cb = "put" -> PerformerPut(perf, call.arg)
      [] call.cb = "unhook" -> PerformerUnhook(perf)
      [] call.cb = "osc_dispatch" -> PerformerOscDispatch(perf)
      [] call.cb = "csi_dispatch" -> PerformerCsiDispatch(perf, call.arg)
      [] call.cb = "esc_dispatch" -> PerformerEscDispatch(perf, call.arg)

RECURSIVE PerformAll(_, _, _, _)
PerformAll(perf, calls, fail, id) ==
    IF calls = <<>> THEN perf
    ELSE PerformAll(Perform(perf, Head(calls), fail, id), Tail(calls), fail, id)

\* The Performer with its sink after the operation r, and r's outcome.
WithWriter(perf, r) == [perf |-> [perf EXCEPT !.writer = r.w], ok |-> r.ok]

PerformerFlush(perf, fail) == WithWriter(perf, LineFlush(perf.writer, fail))

PerformerIntoInner(perf, fail) == WithWriter(perf, LineIntoInner(perf.writer, fail))

(***************************************************************************)
(* The Writer: a Performer and a Parser.                                   *)
(***************************************************************************)
WriterNew == [performer |-> NewPerformer, parser |-> NewParser]

\* A callback that forwards to the sink.
Forwards(call) ==
    call.cb = "print" \/ (call.cb = "execute" /\ call.arg = LF)

ForwardedBytes(call) ==
    IF call.cb = "print" THEN EncodeUtf8(call.arg) ELSE <<LF>>

Tried(calls) == \E k \in 1..Len(calls) : Forwards(calls[k])

TriedBytes(calls) ==
    ForwardedBytes(calls[CHOOSE k \in 1..Len(calls) : Forwards(calls[k])])

\* The state of a write call after a byte at position i: beside the
\* Writer, a history of the call, the bytes of the forwarding attempts
\* that succeeded (fwd) and the positions of those that failed (failed).
Fed(st, a, perf, i) ==
    [w |-> [performer |-> perf, parser |-> a.parser],
     fwd |-> IF Tried(a.calls) /\ perf.err = 0
             THEN st.fwd \o TriedBytes(a.calls) ELSE st.fwd,
     failed |-> IF Tried(a.calls) /\ perf.err # 0
                THEN st.failed \cup {i} ELSE st.failed]

\* The callbacks of the parser's step a reach the Performer.
Dispatch(st, a, i, fail) ==
    Fed(st, a, PerformAll(st.w.performer, a.calls, fail, i), i)

\* A round that skips the byte once an error is recorded: a write that
\* stops feeding the parser at the first failure.
FeedStepHalting(st, b, i, fail) ==
    IF st.w.performer.err # 0 THEN st
    ELSE Dispatch(st, advance(st.w.parser, b), i, fail)

\* One round of the loop of write: parser.advance(&mut performer, b) for
\* the byte b at position i; fail: the wrapped sink's writes return an
\* error during it.
FeedStep(st, b, i, fail) == Dispatch(st, advance(st.w.parser, b), i, fail)

\* The loop of write, for the bytes of buf from position i on.  fails is
\* the set of positions at which the wrapped sink's writes return an error.
\* (Each round's state is bound as an element of a singleton set, so that
\* it is computed once.)
RECURSIVE Feed(_, _, _, _)
Feed(st, buf, i, fails) ==
    IF i > Len(buf) THEN st
    ELSE CHOOSE r \in {Feed(n, buf, i + 1, fails) :
                          n \in {FeedStep(st, buf[i], i, i \in fails)}} : TRUE

StartWrite(w) == [w |-> w, fwd |-> <<>>, failed |-> {}]

Ok(n) == [kind |-> "Ok", n |-> n]
Err(e) == [kind |-> "Err", n |-> e]

\* A match on the error that leaves it in the slot.
TakeKeep(st, n) ==
    [w |-> st.w,
     ret |-> IF st.w.performer.err # 0 THEN Err(st.w.performer.err) ELSE Ok(n),
     pending |-> st.w.performer.err, fwd |-> st.fwd, failed |-> st.failed]

\* match self.performer.err.take(): the error, or the count n.
Take(st, n) ==
    [w |-> [st.w EXCEPT !.performer.err = 0],
     ret |-> IF st.w.performer.err # 0 THEN Err(st.w.performer.err) ELSE Ok(n),
     pending |-> st.w.performer.err, fwd |-> st.fwd, failed |-> st.failed]

\* A write that starts every call with a new parser.
WriterWriteFresh(w, buf, fails) ==
    CHOOSE r \in {Take(st, Len(buf)) :
                    st \in {Feed(StartWrite([w EXCEPT !.parser = NewParser]),
                                 buf, 1, fails)}} : TRUE

\* A write that reports the number of bytes it forwarded.
WriterWritePartial(w, buf, fails) ==
    CHOOSE r \in {Take(st, Len(st.fwd)) :
                    st \in {Feed(StartWrite(w), buf, 1, fails)}} : TRUE

\* A write that reports an error when the buffer ends inside a sequence.
WriterWriteStrict(w, buf, fails) ==
    CHOOSE r \in {IF st.w.parser.state # "Ground"
                  THEN [Take(st, Len(buf)) EXCEPT !.ret = Err(st.w.performer.err)]
                  ELSE Take(st, Len(buf)) :
                    st \in {Feed(StartWrite(w), buf, 1, fails)}} : TRUE

\* write: every byte is fed, then the pending error is taken.
WriterWrite(w, buf, fails) ==
    CHOOSE r \in {Take(st, Len(buf)) :
                    st \in {Feed(StartWrite(w), buf, 1, fails)}} : TRUE

\* The Writer with its Performer after the operation r, and r's outcome.
WithPerformer(w, r) == [w |-> [w EXCEPT !.performer = r.perf], ok |-> r.ok]

\* A flush that also resets the parser.
WriterFlushReset(w, fail) ==
    WithPerformer([w EXCEPT !.parser = NewParser], PerformerFlush(w.performer, fail))

WriterFlush(w, fail) == WithPerformer(w, PerformerFlush(w.performer, fail))

\* An into_inner that hands the sink back without the final flush.
WriterIntoInnerNoFlush(w, fail) ==
    [w |-> [w EXCEPT !.performer.writer.buf = <<>>], ok |-> TRUE]

WriterIntoInner(w, fail) ==
    WithPerformer(w, PerformerIntoInner(w.performer, fail))

\* Write::write_all over the Writer: write until the buffer is consumed;
\* an error, or a write of 0 bytes, ends it with an error.
RECURSIVE WriteAll(_, _)
WriteAll(w, buf) ==
    IF buf = <<>> THEN [w |-> w, ok |-> TRUE]
    ELSE CHOOSE a \in
           {IF r.ret.kind = "Err" \/ r.ret.n = 0 THEN [w |-> r.w, ok |-> FALSE]
            ELSE WriteAll(r.w, SubSeq(buf, r.ret.n + 1, Len(buf))) :
              r \in {WriterWrite(w, buf, {})}} : TRUE

StripErr == [ok |-> FALSE, bytes |-> <<>>]

\* The ? operator of strip.
Try(r, F(_)) == IF r.ok THEN F(r.w) ELSE StripErr

\* strip: a Writer over an in-memory cursor (whose writes never fail),
\* write_all, into_inner, and the cursor's bytes.
strip(data) ==
    Try(WriteAll(WriterNew, data),
        LAMBDA w : Try(WriterIntoInner(w, FALSE),
                       LAMBDA x : [ok |-> TRUE,
                                   bytes |-> x.performer.writer.inner]))

(***************************************************************************)
(* Inputs.                                                                 *)
(***************************************************************************)
MaxInput == 4   \* bytes written to one Writer, over all its write calls
MaxChunk == 2   \* bytes of one write call
MaxWrites == 2  \* write calls on one Writer
MaxFlaky == 2   \* bytes written to a Writer whose sink may fail
MaxSegs  == 4   \* segments of a structured input of strip
MaxData  == 3   \* bytes of an unstructured input of strip

BoundedSeq(S, n) == UNION {[1..k -> S] : k \in 0..n}

\* A structured input of strip is a sequence of segments: printable
\* characters, linefeeds and well-formed sequences.
Seg(k, bs) == [kind |-> k, bytes |-> bs]

TextSegs == {Seg("text", <<97>>), Seg("text", <<195, 169>>)}
LfSegs   == {Seg("lf", <<LF>>)}
\* CSI: ESC [ parameter-bytes final-byte
CsiSegs  == {Seg("csi", <<ESC, 91, 109>>), Seg("csi", <<ESC, 91, 55, 59, 55, 109>>),
             Seg("csi", <<ESC, 91, 58, 55, 126>>)}
\* ESC-dispatch: ESC 7
EscSegs  == {Seg("esc", <<ESC, 55>>)}
\* OSC: ESC ] ... BEL
OscSegs  == {Seg("osc", <<ESC, 93, 55, 7>>)}
\* DCS: ESC P ... ESC \
DcsSegs  == {Seg("dcs", <<ESC, 80, 97, ESC, 92>>)}
\* A lone byte that is not a character: the lead byte of a two-byte
\* UTF-8 encoding, without its continuation.
LeadSegs == {Seg("lead", <<195>>)}
RawSegs  == {Seg("raw", <<b>>) : b \in Bytes}

SeqKinds == {"csi", "esc", "osc", "dcs"}

StructSegs == TextSegs \cup LfSegs \cup CsiSegs \cup EscSegs \cup OscSegs
              \cup DcsSegs \cup LeadSegs

\* The buffers of a write call, by their greatest length.
Chunks == [n \in 0..MaxChunk |-> BoundedSeq(WBytes, n)]

Min(a, b) == IF a < b THEN a ELSE b

StripInputs == BoundedSeq(StructSegs, MaxSegs) \cup BoundedSeq(RawSegs, MaxData)

RECURSIVE Flatten(_)
Flatten(ss) == IF ss = <<>> THEN <<>> ELSE Head(ss).bytes \o Flatten(Tail(ss))

(***************************************************************************)
(* State.                                                                  *)
(***************************************************************************)
VARIABLES
    writer,    \* the Writer: [performer: [writer: [buf, inner], err], parser]
    phase,     \* "open"; after into_inner "returned" (Ok) or "failed" (Err)
    reliable,  \* the wrapped sink's writes and flushes never fail
    op,        \* the last call: "new", "write", "flush", "into_inner"
    ret,       \* what the last call returned
    input,     \* history: all bytes passed to write so far
    lastLen,   \* history: the length of the last write call's buffer
    nwrites,   \* history: the number of write calls
    fwd,       \* history: the bytes of the forwarding attempts that succeeded
    failed,    \* history: positions of the last write's failed attempts
    pending,   \* history: performer.err when the last write's loop ended
    segs,      \* the input of strip, as segments
    result,    \* what strip returned
    status,    \* the exit status of the command-line program, -1 while it runs
    ioerr      \* history: a read or write of the program returned an error

vars == <<writer, phase, reliable, op, ret, input, lastLen, nwrites, fwd, failed,
          pending, segs, result, status, ioerr>>

writerVars == <<writer, phase, reliable, op, ret, input, lastLen, nwrites, fwd,
                failed, pending>>
stripVars == <<segs, result>>
mainVars == <<status, ioerr>>

NoResult == [ok |-> FALSE, bytes |-> <<>>, called |-> FALSE]

\* Writer::new(inner)
WriterInit ==
    /\ writer = WriterNew
    /\ phase = "open"
    /\ op = "new"
    /\ ret = Ok(0)
    /\ input = <<>>
    /\ lastLen = 0
    /\ nwrites = 0
    /\ fwd = <<>>
    /\ failed = {}
    /\ pending = 0

Init ==
    /\ WriterInit
    /\ reliable \in BOOLEAN
    /\ segs = <<>>
    /\ result = NoResult
    /\ status = -1
    /\ ioerr = FALSE

\* The bytes the model still lets a Writer take.
Room == (IF reliable THEN MaxInput ELSE MaxFlaky)

\* The outcomes of the wrapped sink's writes during a call on n bytes.
Failures(n) == IF reliable THEN {{}} ELSE SUBSET (1..n)

\* writer.write(buf)
Write(buf, fails) ==
    /\ phase = "open"
    /\ Len(input) + Len(buf) <= Room
    /\ nwrites < MaxWrites
    /\ reliable => fails = {}
    /\ \E r \in {WriterWrite(writer, buf, fails)} :
           /\ writer' = r.w
           /\ ret' = r.ret
           /\ pending' = r.pending
           /\ fwd' = fwd \o r.fwd
           /\ failed' = r.failed
    /\ op' = "write"
    /\ input' = input \o buf
    /\ lastLen' = Len(buf)
    /\ nwrites' = nwrites + 1
    /\ UNCHANGED <<phase, reliable, segs, result>>
    /\ UNCHANGED mainVars

\* writer.flush()
Flush(fail) ==
    /\ phase = "open"
    /\ reliable => ~fail
    /\ \E r \in {WriterFlush(writer, fail)} :
           /\ writer' = r.w
           /\ ret' = IF r.ok THEN Ok(0) ELSE Err(0)
    /\ op' = "flush"
    /\ UNCHANGED <<phase, reliable, input, lastLen, nwrites, fwd, failed, pending,
                   segs, result>>
    /\ UNCHANGED mainVars

\* writer.into_inner()
IntoInner(fail) ==
    /\ phase = "open"
    /\ reliable => ~fail
    /\ \E r \in {WriterIntoInner(writer, fail)} :
           /\ writer' = r.w
           /\ ret' = IF r.ok THEN Ok(0) ELSE Err(0)
           /\ phase' = IF r.ok THEN "returned" ELSE "failed"
    /\ op' = "into_inner"
    /\ UNCHANGED <<reliable, input, lastLen, nwrites, fwd, failed, pending,
                   segs, result>>
    /\ UNCHANGED mainVars

Next ==
    \/ \E buf \in Chunks[Min(MaxChunk, Room - Len(input))] :
         \E fails \in Failures(Len(buf)) : Write(buf, fails)
    \/ \E fail \in Failures(1) : Flush(fail = {1})
    \/ \E fail \in Failures(1) : IntoInner(fail = {1})

Spec == Init /\ [][Next]_vars

(***************************************************************************)
(* strip as a function of its input.                                       *)
(***************************************************************************)
InitStrip ==
    /\ WriterInit
    /\ reliable = TRUE
    /\ segs \in StripInputs
    /\ result = NoResult
    /\ status = -1
    /\ ioerr = FALSE

Strip ==
    /\ ~result.called
    /\ \E r \in {strip(Flatten(segs))} :
           result' = [ok |-> r.ok, bytes |-> r.bytes, called |-> TRUE]
    /\ UNCHANGED <<segs>>
    /\ UNCHANGED writerVars
    /\ UNCHANGED mainVars

NextStrip == Strip

SpecStrip == InitStrip /\ [][NextStrip]_vars

(***************************************************************************)
(* The command-line program: main copies standard input to a Writer over   *)
(* standard output.  io::copy reads a chunk and hands it to write_all,     *)
(* until a read returns 0 bytes; the first error ends it.  (A write of     *)
(* the Writer takes its whole buffer or fails, so write_all is one write.) *)
(***************************************************************************)
\* The Writer goes out of scope: BufWriter's drop writes the buffer out and
\* discards the result.
DropWriter(w, fail) ==
    [w EXCEPT !.performer.writer = FlushBuf(w.performer.writer, fail).w]

\* One round of io::copy: the read returns buf, write_all(buf) follows; on
\* an error main prints it and calls process::exit(1).
CopyChunk(buf, fails) ==
    /\ status = -1
    /\ buf # <<>>
    /\ Len(input) + Len(buf) <= Room
    /\ nwrites < MaxWrites
    /\ \E r \in {WriterWrite(writer, buf, fails)} :
           /\ writer' = r.w
           /\ ret' = r.ret
           /\ pending' = r.pending
           /\ fwd' = fwd \o r.fwd
           /\ failed' = r.failed
           /\ status' = IF r.ret.kind = "Err" THEN 1 ELSE -1
           /\ ioerr' = (ioerr \/ r.failed # {})
    /\ op' = "write"
    /\ input' = input \o buf
    /\ lastLen' = Len(buf)
    /\ nwrites' = nwrites + 1
    /\ UNCHANGED <<phase, reliable, segs, result>>

\* The read of standard input returns an error: io::copy returns it.
ReadError ==
    /\ status = -1
    /\ ~reliable
    /\ status' = 1
    /\ ioerr' = TRUE
    /\ op' = "read"
    /\ UNCHANGED <<writer, phase, reliable, ret, input, lastLen, nwrites, fwd,
                   failed, pending, segs, result>>

\* The read returns 0 bytes: io::copy returns Ok, main returns and the
\* Writer is dropped; the exit status is 0.
EndOfInput(fail) ==
    /\ status = -1
    /\ reliable => ~fail
    /\ writer' = DropWriter(writer, fail)
    /\ status' = 0
    /\ ioerr' = (ioerr \/ (fail /\ writer.performer.writer.buf # <<>>))
    /\ op' = "drop"
    /\ UNCHANGED <<phase, reliable, ret, input, lastLen, nwrites, fwd, failed,
                   pending, segs, result>>

NextMain ==
    \/ \E buf \in Chunks[Min(MaxChunk, Room - Len(input))] :
         \E fails \in Failures(Len(buf)) : CopyChunk(buf, fails)
    \/ ReadError
    \/ \E fail \in Failures(1) : EndOfInput(fail = {1})

SpecMain == Init /\ [][NextMain]_vars

(***************************************************************************)
(* Properties.                                                             *)
(***************************************************************************)
Kinds(ss) == {ss[i].kind : i \in 1..Len(ss)}

IsVisible(sg) == sg.kind \in {"text", "lf"}

\* The input with every segment that is not a character or a linefeed
\* removed.
KeepVisible(ss) == Flatten(SelectSeq(ss, IsVisible))

NumLF(bs) == Cardinality({i \in 1..Len(bs) : bs[i] = LF})

RECURSIVE IsSubseq(_, _)
IsSubseq(a, b) ==
    IF a = <<>> THEN TRUE
    ELSE IF b = <<>> THEN FALSE
    ELSE IF Head(a) = Head(b) THEN IsSubseq(Tail(a), Tail(b))
    ELSE IsSubseq(a, Tail(b))

Sink == writer.performer.writer.inner
Buffered == writer.performer.writer.buf

\* One write call of the whole data to a new Writer over a sink that never
\* fails, then into_inner: what the sink holds.
SingleWrite(data) ==
    WriterIntoInner(WriterWrite(WriterNew, data, {}).w, FALSE).w.performer.writer.inner

\* C1: for an input that interleaves printable characters and linefeeds
\* with well-formed CSI sequences, strip succeeds and returns the input
\* with every CSI sequence removed and the other bytes in their order.
C1_CsiRemoved ==
    (result.called /\ Kinds(segs) \subseteq {"text", "lf", "csi"})
        => (result.ok /\ result.bytes = KeepVisible(segs))

C1_Witness ==
    /\ result.called
    /\ Len(segs) = 4
    /\ segs[1].kind = "text" /\ segs[2].kind = "csi"
    /\ segs[3].kind = "text" /\ segs[4].kind = "csi"
    /\ result.bytes = segs[1].bytes \o segs[3].bytes

\* C2, as claimed: an input without an ESC byte is returned unchanged.
C2_NoEscUnchanged ==
    (result.called /\ \A i \in 1..Len(Flatten(segs)) : Flatten(segs)[i] # ESC)
        => (result.ok /\ result.bytes = Flatten(segs))

\* C2, amended: an input that consists only of printable characters and
\* linefeeds is returned unchanged, byte for byte.
C2_TextUnchanged ==
    (result.called /\ Kinds(segs) \subseteq {"text", "lf"})
        => (result.ok /\ result.bytes = Flatten(segs))

C2_Witness ==
    /\ result.called
    /\ segs = <<Seg("text", <<97>>), Seg("lf", <<LF>>),
                Seg("text", <<195, 169>>), Seg("lf", <<LF>>)>>
    /\ result.bytes = <<97, LF, 195, 169, LF>>

\* C3: whatever the split of the input into write calls (and the flushes
\* between them), after into_inner a sink that never fails holds what it
\* holds after a single write call of the whole input.
C3_ChunkingInvariant ==
    (reliable /\ phase = "returned") => Sink = SingleWrite(input)

\* ESC [ a a written as ESC [ and a a: split inside the CSI sequence.
C3_Witness ==
    /\ reliable /\ phase = "returned"
    /\ input = <<ESC, 91, 97, 97>>
    /\ nwrites = 2 /\ lastLen = 2
    /\ Sink = <<97>>

\* The bytes of an input that do not belong to an escape sequence, and
\* the encoding of U+FFFD, printed for bytes that are not a character.
VisibleSource(ss) ==
    UNION {{ss[i].bytes[j] : j \in 1..Len(ss[i].bytes)} :
             i \in {k \in 1..Len(ss) : ss[k].kind \notin SeqKinds}}
    \cup {239, 191, 189}

\* C4: a byte that reaches the sink is a linefeed or belongs to a printable
\* character: no control byte and no byte of a CSI, OSC, DCS or
\* ESC-dispatch sequence reaches the sink.
C4_OnlyVisibleBytesReachSink ==
    result.called =>
        \A i \in 1..Len(result.bytes) :
            \/ result.bytes[i] = LF
            \/ /\ result.bytes[i] >= 32
               /\ result.bytes[i] # 127
               /\ result.bytes[i] \in VisibleSource(segs)

C6_ErrorNeverDropped ==
    (op = "write" /\ failed # {}) => ret.kind = "Err"

\* C7: after a successful into_inner nothing is left in the buffer and the
\* sink holds every forwarded byte, in order (exactly those, when no write
\* of the sink ever failed); after a failed one the error carries the sink
\* and the unflushed buffer, which together still hold every forwarded byte.
C7_IntoInnerFlushes ==
    /\ phase = "returned" =>
          /\ ret.kind = "Ok"
          /\ Buffered = <<>>
          /\ IsSubseq(fwd, Sink)
          /\ reliable => Sink = fwd
    /\ phase = "failed" =>
          /\ ret.kind = "Err"
          /\ Buffered # <<>>
          /\ IsSubseq(fwd, Sink \o Buffered)

\* A line and a trailing partial line have reached the returned sink.
C7_Witness ==
    /\ phase = "returned"
    /\ fwd = <<97, LF, 97>>
    /\ Sink = <<97, LF, 97>>

\* C8: for printable texts a and b, stripping a ESC 7 b yields a b.
C8_EscSevenConsumed ==
    (/\ result.called
     /\ \E k \in 1..Len(segs) :
          /\ segs[k] = Seg("esc", <<ESC, 55>>)
          /\ \A i \in 1..Len(segs) : i # k => segs[i].kind = "text")
        => (result.ok /\ result.bytes = KeepVisible(segs))

C8_Witness ==
    /\ result.called
    /\ segs = <<Seg("text", <<97>>), Seg("esc", <<ESC, 55>>),
                Seg("text", <<97>>), Seg("text", <<195, 169>>)>>
    /\ result.bytes = <<97, 97, 195, 169>>

\* C9: for lines of printable characters with well-formed sequences
\* interspersed, the output has as many linefeeds as the input, at the
\* same places relative to the surviving text.
C9_LinefeedsPreserved ==
    (result.called /\ Kinds(segs) \subseteq {"text", "lf"} \cup SeqKinds)
        => /\ result.ok
           /\ NumLF(result.bytes) = NumLF(Flatten(segs))
           /\ result.bytes = KeepVisible(segs)

\* Two lines, a sequence on each, the last one ended by a linefeed.
C9_Witness ==
    /\ result.called
    /\ Len(segs) = 4
    /\ segs[1].kind = "csi" /\ segs[2].kind = "lf"
    /\ segs[3].kind = "osc" /\ segs[4].kind = "lf"
    /\ result.bytes = <<LF, LF>>

\* C10: over a sink that never fails every write call returns the full
\* length of its buffer, flush and into_inner succeed, and strip of the
\* bytes written returns no error.
C10_NoParserError ==
    reliable =>
        /\ op = "write" => ret = Ok(lastLen)
        /\ op \in {"flush", "into_inner"} => ret.kind = "Ok"
        /\ strip(input).ok

\* A write that ends inside an unterminated CSI sequence.
C10_Witness ==
    /\ reliable /\ op = "write" /\ ret = Ok(2)
    /\ input = <<97, 97, ESC, 91>>
    /\ writer.parser.state = "CsiEntry"

IsPrefix(a, b) == Len(a) <= Len(b) /\ a = SubSeq(b, 1, Len(a))

Last(s) == s[Len(s)]

\* C11: when the last byte a write call forwarded with success is a
\* linefeed, the line buffer is empty after the call and the sink holds
\* every byte forwarded so far, in order (exactly those, over a sink that
\* never fails); the bytes forwarded after the last linefeed are in the
\* sink or in the buffer.
C11_LinefeedFlushes ==
    [][(op' = "write" /\ fwd' # fwd /\ Last(fwd') = LF)
          => /\ Buffered' = <<>>
             /\ IsSubseq(fwd', Sink')
             /\ reliable => Sink' = fwd']_vars

\* a a fills the buffer; the linefeed of the next write flushes all three.
C11_Witness ==
    /\ op = "write" /\ nwrites = 2 /\ lastLen = 1
    /\ input = <<97, 97, LF>>
    /\ Sink = <<97, 97, LF>> /\ Buffered = <<>>

\* C12: when the program has exited, its status is 1 if a read or a write
\* returned an error; otherwise it is 0 and standard output has received
\* every forwarded byte of the input, the last partial line included.
C12_MainExitStatus ==
    status # -1 =>
        IF ioerr THEN status = 1
        ELSE /\ status = 0
             /\ Buffered = <<>>
             /\ Sink = fwd
             /\ Sink = strip(input).bytes

\* The parser after the bytes of data have been fed to a new Writer whose
\* sink never fails.
ParserAfter(data) == Feed(StartWrite(WriterNew), data, 1, {}).w.parser

\* C13: over a sink that may fail, after every write call (one that
\* returned an error, and one that follows it) the parser is in the state
\* in which the same bytes leave the parser of a Writer whose sink never
\* fails.
C13_ParserAdvancesDespiteError ==
    (~reliable /\ op = "write") => writer.parser = ParserAfter(input)

\* The linefeed fails, the ESC after it is still fed: the call returns the
\* error and the parser is inside the escape sequence.
C13_Witness ==
    /\ ~reliable /\ op = "write" /\ nwrites = 1
    /\ input = <<LF, ESC>>
    /\ ret = Err(1)
    /\ writer.parser.state = "Escape"

Max(S) == CHOOSE x \in S : \A y \in S : y <= x

\* C14: an error returned by a write call during which forwarding attempts
\* failed is the error of the last of these failures.
C14_LastErrorReported ==
    (op = "write" /\ failed # {} /\ ret.kind = "Err") => ret = Err(Max(failed))

\* Both linefeeds of one call fail: the call returns the second error.
C14_Witness ==
    /\ op = "write" /\ nwrites = 1
    /\ input = <<LF, LF>>
    /\ failed = {1, 2}
    /\ ret = Err(2)

\* C15: between calls the pending-error slot is empty, after construction
\* and after every write (one that returned an error too), flush and
\* into_inner; and a write call without a failed forwarding attempt
\* returns no error, whatever happened in the calls before it.
C15_ErrorSlotEmptyBetweenCalls ==
    /\ writer.performer.err = 0
    /\ (op = "write" /\ failed = {}) => ret = Ok(lastLen)

\* The linefeed of the first call fails and the call returns the error;
\* the second call forwards its linefeed and returns Ok.
C15_Witness ==
    /\ ~reliable /\ op = "write" /\ nwrites = 2 /\ lastLen = 1
    /\ input = <<LF, LF>>
    /\ fwd = <<LF>>
    /\ failed = {} /\ ret = Ok(1)
    /\ writer.performer.err = 0

\* The callbacks that discard: the six of the escape and control sequences
\* (three of them with an argument b), and execute for a control byte b
\* other than linefeed.
Discarding(b) ==
    {Call("put", b), Call("csi_dispatch", b), Call("esc_dispatch", b)}
    \cup (IF b < 32 /\ b # LF THEN {Call("execute", b)} ELSE {})

DiscardingNoArg == {Call("hook", 0), Call("unhook", 0), Call("osc_dispatch", 0)}

\* Arguments of callbacks: control bytes (NUL, TAB, CR, ESC) and final
\* bytes of sequences (a, m).
CallbackArgs == {0, 9, 13, ESC, 97, 109}

\* The Performer of the current state, with the pending-error slot empty
\* (e = 0) or set.
PerformerWith(e) == [writer.performer EXCEPT !.err = e]

\* C16: in every state a Writer reaches, with the pending-error slot empty
\* or set, each discarding callback leaves the Performer (sink, line buffer
\* and slot) as it is, whatever its argument and whether or not the sink
\* would fail; and over a sink that never fails the sink and the buffer
\* hold the bytes forwarded by print and by execute of a linefeed, nothing
\* else.
C16_DiscardingCallbacksInert ==
    /\ \A e \in {0, 1}, fail \in BOOLEAN :
         /\ \A call \in DiscardingNoArg :
              Perform(PerformerWith(e), call, fail, 2) = PerformerWith(e)
         /\ \A b \in CallbackArgs : \A call \in Discarding(b) :
              Perform(PerformerWith(e), call, fail, 2) = PerformerWith(e)
    /\ reliable => Sink \o Buffered = fwd

\* a ESC [ 7 a: the CSI sequence is dispatched, only the first a is held.
C16_Witness ==
    /\ reliable /\ op = "write" /\ nwrites = 2
    /\ input = <<97, ESC, 91, 97>>
    /\ writer.parser.state = "Ground"
    /\ Sink = <<>> /\ Buffered = <<97>>

\* C17: a flush call leaves the parser and the pending-error slot as they
\* are and neither adds, removes nor reorders a byte of the sink followed
\* by the line buffer; after a flush that returned Ok the buffer is empty.
\* (So the bytes finally delivered are those delivered without the flush.)
C17_FlushKeepsParser ==
    [][op' = "flush"
          => /\ writer'.parser = writer.parser
             /\ writer'.performer.err = writer.performer.err
             /\ Sink' \o Buffered' = Sink \o Buffered
             /\ ret'.kind = "Ok" => Buffered' = <<>>]_vars

\* A flush in the middle of a CSI sequence, between the writes of a ESC [
\* and of its final byte: a is flushed and the parser stays in the sequence.
C17_Witness ==
    /\ op = "flush" /\ ret.kind = "Ok"
    /\ input = <<97, ESC, 91>>
    /\ writer.parser.state = "CsiEntry"
    /\ Sink = <<97>> /\ Buffered = <<>>

\* The input of strip from its segment k + 1 on.
Post(k) == Flatten(SubSeq(segs, k + 1, Len(segs)))

\* The Writers that a new Writer over a sink that never fails becomes as
\* the segments ss are written to it: the k + 1-st is the Writer after k
\* segments.
RECURSIVE Walk(_, _)
Walk(w, ss) ==
    IF ss = <<>> THEN <<w>>
    ELSE <<w>> \o Walk(WriterWrite(w, Head(ss).bytes, {}).w, Tail(ss))

\* What a Writer has forwarded: the sink followed by the line buffer.
Out(w) == w.performer.writer.inner \o w.performer.writer.buf

\* The input ends inside a sequence that starts after k segments: an ESC
\* met in the ground state, after which the parser never returns to it.
OpenFrom(W, k) ==
    /\ k < Len(segs)
    /\ segs[k + 1].bytes[1] = ESC
    /\ W[k + 1].parser.state = "Ground"
    /\ \A j \in (k + 1)..Len(segs) :
         W[j + 1].parser.state \notin {"Ground", "Utf8"}

Linefeeds(n) == [i \in 1..n |-> LF]

\* Wherever the parser is in its ground state it is as new, with no memory
\* of the sequences before; and (compared for the inputs of up to MaxData
\* segments) what follows is filtered as if it were the whole input.
ResumesAtGround(W) ==
    \A k \in 1..Len(segs) :
        W[k + 1].parser.state = "Ground" =>
            /\ W[k + 1].parser = NewParser
            /\ Len(segs) <= MaxData =>
                 result.bytes = Out(W[k + 1]) \o strip(Post(k)).bytes

C19_OutputAppendOnly ==
    [][reliable =>
          /\ Sink' \o Buffered' = strip(input').bytes
          /\ IsPrefix(Sink, Sink')
          /\ IsPrefix(Sink \o Buffered, Sink' \o Buffered')]_vars

\* LF ESC, then a a: the line is in the sink, the two bytes of the escape
\* sequence are gone and the a written last waits in the buffer.
C19_Witness ==
    /\ reliable /\ op = "write" /\ nwrites = 2 /\ lastLen = 2
    /\ input = <<LF, ESC, 97, 97>>
    /\ Sink = <<LF>> /\ Buffered = <<97>>

\* C20: strip of what strip returned succeeds and returns the same bytes.
C20_StripIdempotent ==
    (result.called /\ result.ok)
        => strip(result.bytes) = [ok |-> TRUE, bytes |-> result.bytes]

\* ESC [ m a C3 a: the first strip removes the CSI sequence and replaces
\* the incomplete character (and the a it swallows) by U+FFFD; the second
\* changes nothing.
C20_Witness ==
    /\ result.called
    /\ Flatten(segs) = <<ESC, 91, 109, 97, 195, 97>>
    /\ result.bytes = <<97, 239, 191, 189>>
    /\ strip(result.bytes).bytes = <<97, 239, 191, 189>>

====
